---- MODULE Spec2Model ----
(***************************************************************************)
(* State-machine model of src/app.py: a FastAPI + SQLModel CRUD backend    *)
(* over three SQLite tables (lead, negociacao, funil).                     *)
(*                                                                         *)
(* A table is a function from primary key to row.  Every handler is one    *)
(* action, except update_funil, whose read step (session.get) and write    *)
(* step (session.commit) are separate actions so that two requests, each   *)
(* with its own Session, can interleave.                                   *)
(***************************************************************************)
EXTENDS Integers, Sequences, FiniteSets, TLC

VARIABLES leads, negs, funis, started, sess, resp, returned

vars == <<leads, negs, funis, started, sess, resp, returned>>
store == <<leads, negs, funis>>

(***************************************************************************)
(* Bounds of the model                                                     *)
(***************************************************************************)
\* rows the lead and negociacao tables hold together
MaxRows == 2
\* list sizes, offsets and limits explored on each side of 0 and of the cap
ListExtra == 2

(***************************************************************************)
(* Values                                                                  *)
(***************************************************************************)
\* Python None / SQL NULL of an integer column; primary keys are >= 1
None == 0
\* Query(le=100)
MaxLimit == 100

Statuses == {"em_negociacao", "perdida", "ganha"}
PayloadStatuses == Statuses \cup {"invalido"}
Nomes == {"ana", "bia"}
Titulos == {"venda"}
\* id a client may send in a body: none, or one that gets stored
PayloadIds == {None, 1}
PayloadLeadIds == {None} \cup (1..MaxRows)
\* ids in a path: integers, stored or not
PathIds == 1..MaxRows
\* funil column a client may send: none, or the id of a seeded row
PayloadFunis == {None, 1}
\* funil ids in the path of change_funil_to: the seeded rows and an absent row
PathFunis == 1..3
\* requests in flight at once, each with its own Session
Sessions == {1, 2}

Lead(id, nome) == [id |-> id, nome |-> nome, email |-> "a@b.c", telefone |-> "555"]
Negociacao(id, titulo, status, lead_id, funil) ==
    [id |-> id, titulo |-> titulo, status |-> status, lead_id |-> lead_id, funil |-> funil]
Funil(id, nome) == [id |-> id, nome |-> nome]

EmptyTable == [i \in {} |-> None]

Max(S) == CHOOSE x \in S : \A y \in S : y <= x

(***************************************************************************)
(* SQLite / SQLAlchemy primitives                                          *)
(***************************************************************************)
\* rowid chosen for an INTEGER PRIMARY KEY left NULL: largest rowid + 1
NextId(table) == IF DOMAIN table = {} THEN 1 ELSE Max(DOMAIN table) + 1

\* id under which session.add(obj); session.commit() tries to INSERT
InsertId(table, id) == IF id = None THEN NextId(table) ELSE id

\* variant: no uniqueness check, the INSERT replaces the stored row
ConflictsNever(table, id) == FALSE

\* UNIQUE constraint on the primary key: the INSERT raises IntegrityError
Conflicts(table, id) == InsertId(table, id) \in DOMAIN table

\* the table after a successful INSERT of row under its id
Insert(table, row) ==
    [i \in DOMAIN table \cup {row.id} |-> IF i = row.id THEN row ELSE table[i]]

\* session.get(Model, pk): <<row>> when found, <<>> for None
Get(table, pk) == IF pk \in DOMAIN table THEN <<table[pk]>> ELSE <<>>

Response(op, code, detail, body) ==
    [op |-> op, code |-> code, detail |-> detail, body |-> body]

\* nothing answered yet by the running process
NoResponse == Response("none", 0, <<>>, <<>>)

\* a Session with no object attached
IdleSession == [pc |-> "idle", nid |-> None, funil |-> None, status |-> "", dirty |-> {}]

(***************************************************************************)
(* create_db_and_tables (lifespan)                                         *)
(***************************************************************************)
\* variant: both rows are inserted without looking for them first
SeedRowsAlways(f) ==
    LET f1 == Insert(f, Funil(NextId(f), "ganha"))
    IN Insert(f1, Funil(NextId(f1), "perdida"))

SeedRows(f) ==
    LET ganha == Get(f, 1)
        perdida == Get(f, 2)
        f1 == IF ganha = <<>> THEN Insert(f, Funil(NextId(f), "ganha")) ELSE f
        f2 == IF perdida = <<>> THEN Insert(f1, Funil(NextId(f1), "perdida")) ELSE f1
    IN f2

\* process start: tables created if missing, Funil rows seeded; requests
\* that were in flight in the previous process are gone
Startup ==
    /\ started' = TRUE
    /\ funis' = SeedRows(funis)
    /\ sess' = [s \in Sessions |-> IdleSession]
    /\ resp' = NoResponse
    /\ UNCHANGED <<leads, negs, returned>>

(***************************************************************************)
(* Lead handlers                                                           *)
(***************************************************************************)
create_lead(pid, nome) ==
    /\ started
    /\ Cardinality(DOMAIN leads \cup {InsertId(leads, pid)}) + Cardinality(DOMAIN negs) <= MaxRows
    /\ IF Conflicts(leads, pid)
         THEN /\ resp' = Response("create_lead", 500, <<"IntegrityError">>, <<>>)
              /\ UNCHANGED <<leads, returned>>
         ELSE LET lead == Lead(InsertId(leads, pid), nome)
              IN /\ leads' = Insert(leads, lead)
                 /\ resp' = Response("create_lead", 200, <<>>, <<lead>>)
                 /\ returned' = returned \cup {lead}
    /\ UNCHANGED <<negs, funis, started, sess>>

read_lead_response(table, lead_id) ==
    LET lead == Get(table, lead_id)
    IN IF lead = <<>>
         THEN Response("read_lead", 404, <<"Lead not found">>, <<>>)
         ELSE Response("read_lead", 200, <<>>, lead)

read_lead(lead_id) ==
    /\ started
    /\ resp' = read_lead_response(leads, lead_id)
    /\ UNCHANGED <<leads, negs, funis, started, sess, returned>>

(***************************************************************************)
(* Negociacao handlers                                                     *)
(***************************************************************************)
\* variant: no status validation
StatusOkAny(status) == TRUE

StatusOk(status) == status \in Statuses

InvalidStatusDetail(status) ==
    <<"Valor nao e <em_negociacao, perdida ou ganha>", status>>

create_negociacao(pid, titulo, status, lead_id, funil) ==
    /\ started
    /\ \/ Cardinality(DOMAIN leads) + Cardinality(DOMAIN negs \cup {InsertId(negs, pid)}) <= MaxRows
       \/ ~StatusOk(status)
       \/ Get(leads, lead_id) = <<>>
    /\ IF ~StatusOk(status)
         THEN /\ resp' = Response("create_negociacao", 400, InvalidStatusDetail(status), <<>>)
              /\ UNCHANGED negs
         ELSE LET lead == Get(leads, lead_id)
              IN IF lead = <<>>
                   THEN /\ resp' = Response("create_negociacao", 400,
                                            <<"Id de lead inexistente">>, <<>>)
                        /\ UNCHANGED negs
                   ELSE IF Conflicts(negs, pid)
                          THEN /\ resp' = Response("create_negociacao", 500,
                                                   <<"IntegrityError">>, <<>>)
                               /\ UNCHANGED negs
                          ELSE LET negociacao ==
                                       Negociacao(InsertId(negs, pid), titulo, status,
                                                  lead[1].id, funil)
                               IN /\ negs' = Insert(negs, negociacao)
                                  /\ resp' = Response("create_negociacao", 200, <<>>,
                                                      <<negociacao>>)
    /\ UNCHANGED <<leads, funis, started, sess, returned>>

read_negociacao(negociacao_id) ==
    /\ started
    /\ LET negociacao == Get(negs, negociacao_id)
       IN resp' = IF negociacao = <<>>
                    THEN Response("read_negociacao", 404, <<"Negociacao not found">>, <<>>)
                    ELSE Response("read_negociacao", 200, <<>>, negociacao)
    /\ UNCHANGED <<leads, negs, funis, started, sess, returned>>

\* variant: the Funil check comes first
NotFoundDetailFunilFirst(negociacao, funil) ==
    IF funil = <<>> THEN <<"Funil not found">>
    ELSE IF negociacao = <<>> THEN <<"Negociacao not found">>
    ELSE <<>>

\* the two "if not ...: raise HTTPException(404)" of update_funil, in order;
\* <<>> when neither fires
NotFoundDetail(negociacao, funil) ==
    IF negociacao = <<>> THEN <<"Negociacao not found">>
    ELSE IF funil = <<>> THEN <<"Funil not found">>
    ELSE <<>>

\* the attributes of the loaded row whose history shows a net change after
\* the two assignments: those given a value other than the loaded one
Dirty(loaded, target) ==
    {c \in {"funil"} : target.id # loaded.funil}
        \cup {c \in {"status"} : target.nome # loaded.status}

\* update_funil up to session.add: both session.get calls, the two checks
\* and the two assignments.  The assigned values and their history stay in
\* the request's Session until its commit.  Sessions are interchangeable:
\* the request takes the first one that is free.
update_funil_get(s, negociacao_id, novo_funil) ==
    /\ started
    /\ sess[s].pc = "idle"
    /\ \A t \in Sessions : t < s => sess[t].pc # "idle"
    /\ LET negociacao == Get(negs, negociacao_id)
           funil == Get(funis, novo_funil)
           detail == NotFoundDetail(negociacao, funil)
       IN IF detail # <<>>
            THEN /\ resp' = Response("update_funil", 404, detail, <<>>)
                 /\ UNCHANGED sess
            ELSE /\ sess' = [sess EXCEPT ![s] =
                                [pc |-> "loaded", nid |-> negociacao_id,
                                 funil |-> funil[1].id,
                                 status |-> funil[1].nome,
                                 dirty |-> Dirty(negociacao[1], funil[1])]]
                 /\ UNCHANGED resp
    /\ UNCHANGED <<leads, negs, funis, started, returned>>

\* the row after the unit-of-work flush: the UPDATE's SET clause holds only
\* the attributes with a net change
Flush(row, pending) ==
    [row EXCEPT !.funil = IF "funil" \in pending.dirty THEN pending.funil ELSE @,
                !.status = IF "status" \in pending.dirty THEN pending.status ELSE @]

\* update_funil from session.commit on: flush, commit and refresh
update_funil_commit(s) ==
    /\ sess[s].pc = "loaded"
    /\ LET negociacao == Flush(negs[sess[s].nid], sess[s])
       IN /\ negs' = [negs EXCEPT ![sess[s].nid] = negociacao]
          /\ resp' = Response("update_funil", 200, <<>>, <<negociacao>>)
    /\ sess' = [sess EXCEPT ![s] = IdleSession]
    /\ UNCHANGED <<leads, funis, started, returned>>

(***************************************************************************)
(* List handlers                                                           *)
(***************************************************************************)
RECURSIVE Scan(_, _, _)
Scan(table, i, hi) ==
    IF i > hi THEN <<>> ELSE Get(table, i) \o Scan(table, i + 1, hi)

\* SELECT without ORDER BY: the rows in rowid order
Rows(table) == IF DOMAIN table = {} THEN <<>> ELSE Scan(table, 1, Max(DOMAIN table))

\* SELECT ... LIMIT limit OFFSET offset in SQLite: a negative OFFSET counts
\* as 0, a negative LIMIT is no upper bound
SelectPage(table, offset, limit) ==
    LET rows == Rows(table)
        n == Len(rows)
        skip == IF offset < 0 THEN 0 ELSE IF offset > n THEN n ELSE offset
        rest == n - skip
        take == IF limit < 0 \/ limit > rest THEN rest ELSE limit
    IN SubSeq(rows, skip + 1, skip + take)

\* Query(le=100): the only constraint FastAPI validates on limit
LimitOk(limit) == limit <= MaxLimit

list_response(op, table, offset, limit) ==
    IF ~LimitOk(limit)
      THEN Response(op, 422, <<"limit: less than or equal to 100">>, <<>>)
      ELSE Response(op, 200, <<>>, SelectPage(table, offset, limit))

list_leads(offset, limit) ==
    /\ started
    /\ resp' = list_response("list_leads", leads, offset, limit)
    /\ UNCHANGED <<leads, negs, funis, started, sess, returned>>

list_negociacoes(offset, limit) ==
    /\ started
    /\ resp' = list_response("list_negociacoes", negs, offset, limit)
    /\ UNCHANGED <<leads, negs, funis, started, sess, returned>>

(***************************************************************************)
(* Specification: requests after startup, update_funil interleaved         *)
(***************************************************************************)
Init ==
    /\ leads = EmptyTable
    /\ negs = EmptyTable
    /\ funis = EmptyTable
    /\ started = FALSE
    /\ sess = [s \in Sessions |-> IdleSession]
    /\ resp = NoResponse
    /\ returned = {}

\* create_negociacao raises before it reads lead_id (invalid status) or id
\* and funil (unknown lead): payloads that differ only in fields not read
\* are the same step, taken once with those fields absent
OneRequest(pid, status, lead_id, funil) ==
    /\ ~StatusOk(status) => lead_id = None
    /\ (~StatusOk(status) \/ Get(leads, lead_id) = <<>>) => (pid = None /\ funil = None)

Next ==
    \/ Startup
    \/ \E pid \in PayloadIds, nome \in Nomes : create_lead(pid, nome)
    \/ \E lead_id \in PathIds : read_lead(lead_id)
    \/ \E pid \in PayloadIds, titulo \in Titulos, status \in PayloadStatuses,
          lead_id \in PayloadLeadIds, funil \in PayloadFunis :
          /\ OneRequest(pid, status, lead_id, funil)
          /\ create_negociacao(pid, titulo, status, lead_id, funil)
    \/ \E negociacao_id \in PathIds : read_negociacao(negociacao_id)
    \/ \E s \in Sessions, negociacao_id \in PathIds, novo_funil \in PathFunis :
          update_funil_get(s, negociacao_id, novo_funil)
    \/ \E s \in Sessions : update_funil_commit(s)

Spec == Init /\ [][Next]_vars

(***************************************************************************)
(* Specification of the list handlers: a started store holding n leads and *)
(* n negociacoes, n around the cap, queried with offsets and limits around *)
(* zero and around the cap                                                 *)
(***************************************************************************)
ListSizes == (0..ListExtra) \cup ((MaxLimit - 1)..(MaxLimit + ListExtra))
ListOffsets == (-1)..ListExtra
ListLimits == ((-1)..ListExtra) \cup ((MaxLimit - 1)..(MaxLimit + 1))

InitList ==
    \E n \in ListSizes :
        /\ leads = [i \in 1..n |-> Lead(i, "ana")]
        /\ negs = [i \in 1..n |-> Negociacao(i, "venda", "em_negociacao", i, None)]
        /\ funis = SeedRows(EmptyTable)
        /\ started = TRUE
        /\ sess = [s \in Sessions |-> IdleSession]
        /\ resp = NoResponse
        /\ returned = {Lead(i, "ana") : i \in 1..n}

NextList ==
    \/ \E offset \in ListOffsets, limit \in ListLimits : list_leads(offset, limit)
    \/ \E offset \in ListOffsets, limit \in ListLimits : list_negociacoes(offset, limit)

SpecList == InitList /\ [][NextList]_vars

(***************************************************************************)
(* Properties                                                              *)
(***************************************************************************)
SeededFunis == [i \in {1, 2} |-> IF i = 1 THEN Funil(1, "ganha") ELSE Funil(2, "perdida")]

\* C1: every stored Negociacao has a status among em_negociacao, perdida,
\* ganha, whatever create-lead, create-negociacao and change_funil_to
\* requests were served, accepted or rejected
C1_StatusInEnum == \A i \in DOMAIN negs : negs[i].status \in Statuses

\* a Negociacao moved to funil 2 by an answered change_funil_to
C1_Witness ==
    /\ resp.op = "update_funil"
    /\ resp.code = 200
    /\ \E i \in DOMAIN negs : negs[i].funil = 2 /\ negs[i].status = "perdida"

\* C2: every stored Negociacao with a non-null funil refers to a stored
\* Funil row whose name equals the Negociacao's status
C2_FunilConsistent ==
    \A i \in DOMAIN negs :
        negs[i].funil # None =>
            /\ negs[i].funil \in DOMAIN funis
            /\ funis[negs[i].funil].nome = negs[i].status

\* C3: a stored Negociacao changes only by a successful change_funil_to on
\* its id, which sets funil to the target Funil's id and status to the target
\* Funil's name and leaves titulo, the lead link and all other records as
\* they were
C3_OnlyChangeFunilSetsPair ==
    [][/\ \A i \in DOMAIN negs :
             /\ i \in DOMAIN negs'
             /\ negs'[i] # negs[i] =>
                    \E s \in Sessions : update_funil_commit(s) /\ sess[s].nid = i
       /\ \A s \in Sessions :
             update_funil_commit(s) =>
                 /\ negs'[sess[s].nid].funil = sess[s].funil
                 /\ negs'[sess[s].nid].status = funis[sess[s].funil].nome
                 /\ negs'[sess[s].nid].titulo = negs[sess[s].nid].titulo
                 /\ negs'[sess[s].nid].lead_id = negs[sess[s].nid].lead_id
                 /\ \A j \in DOMAIN negs \ {sess[s].nid} : negs'[j] = negs[j]
                 /\ UNCHANGED <<leads, funis>>]_vars

\* C4: create-negociacao with a status outside the enumeration answers 400
\* naming the value, with an unknown lead_id 400 "Id de lead inexistente",
\* both without touching the store; with a valid status and a stored lead_id
\* it stores exactly one new Negociacao linked to that Lead
C4_CreateNegociacaoContract ==
    [][\A pid \in PayloadIds, titulo \in Titulos, status \in PayloadStatuses,
          lead_id \in PayloadLeadIds, funil \in PayloadFunis :
          create_negociacao(pid, titulo, status, lead_id, funil) =>
              /\ status \notin Statuses =>
                     /\ resp'.code = 400
                     /\ resp'.detail = InvalidStatusDetail(status)
                     /\ UNCHANGED store
              /\ (status \in Statuses /\ lead_id \notin DOMAIN leads) =>
                     /\ resp'.code = 400
                     /\ resp'.detail = <<"Id de lead inexistente">>
                     /\ UNCHANGED store
              /\ (status \in Statuses /\ lead_id \in DOMAIN leads) =>
                     /\ UNCHANGED <<leads, funis>>
                     /\ \A j \in DOMAIN negs : j \in DOMAIN negs' /\ negs'[j] = negs[j]
                     /\ \E i \in DOMAIN negs' \ DOMAIN negs :
                            /\ DOMAIN negs' = DOMAIN negs \cup {i}
                            /\ negs'[i].lead_id = lead_id]_vars

\* C5: change_funil_to answers 404 naming Negociacao when the negociacao id
\* is not stored (also when the funil id is not stored either), 404 naming
\* Funil when only the funil id is not stored, and changes no record
C5_NotFoundNamesMissing ==
    [][\A s \in Sessions, negociacao_id \in PathIds, novo_funil \in PathFunis :
          update_funil_get(s, negociacao_id, novo_funil) =>
              /\ negociacao_id \notin DOMAIN negs =>
                     /\ resp' = Response("update_funil", 404, <<"Negociacao not found">>, <<>>)
                     /\ UNCHANGED store
              /\ (negociacao_id \in DOMAIN negs /\ novo_funil \notin DOMAIN funis) =>
                     /\ resp' = Response("update_funil", 404, <<"Funil not found">>, <<>>)
                     /\ UNCHANGED store]_vars

\* a change_funil_to on a stored Negociacao was answered 404 for its funil
C5_Witness ==
    /\ DOMAIN negs # {}
    /\ resp = Response("update_funil", 404, <<"Funil not found">>, <<>>)

\* C6: after any number of startups on an initially empty store, with any
\* requests in between, the Funil table is exactly {1: ganha, 2: perdida},
\* and no step changes or removes a Funil row that exists
C6_SeedIdempotent ==
    [][/\ started' => funis' = SeededFunis
       /\ \A i \in DOMAIN funis : i \in DOMAIN funis' /\ funis'[i] = funis[i]]_vars

\* a startup has run on a store that already holds a Negociacao
C6_Witness ==
    /\ started
    /\ resp = NoResponse
    /\ DOMAIN negs # {}
    /\ funis = SeededFunis

\* C7: every create-lead succeeds and stores one new Lead under an id the
\* store assigns, different from every stored id, whatever id the payload
\* carries; the answer is that record and the stored Leads are unchanged
C7_CreateLeadAutoId ==
    [][\A pid \in PayloadIds, nome \in Nomes :
          create_lead(pid, nome) =>
              /\ resp'.code = 200
              /\ NextId(leads) \in DOMAIN leads'
              /\ DOMAIN leads' = DOMAIN leads \cup {NextId(leads)}
              /\ leads'[NextId(leads)] = Lead(NextId(leads), nome)
              /\ resp'.body = <<leads'[NextId(leads)]>>
              /\ \A j \in DOMAIN leads : leads'[j] = leads[j]]_vars

\* C8: a record returned by create-lead is what read-lead of its id returns
\* in every later state, and read-lead of an id that no create-lead returned
\* answers 404
C8_LeadRoundTrip ==
    [][/\ \A r \in returned' :
             read_lead_response(leads', r.id) = Response("read_lead", 200, <<>>, <<r>>)
       /\ \A lead_id \in PathIds :
             (read_lead(lead_id) /\ \A r \in returned : r.id # lead_id) =>
                 resp'.code = 404]_vars

\* a created Lead read back after a Negociacao was created for it
C8_Witness ==
    /\ resp.op = "read_lead"
    /\ resp.code = 200
    /\ resp.body[1] \in returned
    /\ \E i \in DOMAIN negs : negs[i].lead_id = resp.body[1].id

\* C9: a list request with limit > 100 is rejected and leaves the store
\* alone; every other list request returns at most 100 records, and at most
\* limit records (read for a limit that is not negative, so that only an
\* answer of more than 100 records or of more than limit >= 0 records
\* breaks it)
C9_ListCapped ==
    [][\A offset \in ListOffsets, limit \in ListLimits :
          (list_leads(offset, limit) \/ list_negociacoes(offset, limit)) =>
              /\ limit > MaxLimit => resp'.code = 422 /\ UNCHANGED store
              /\ limit <= MaxLimit =>
                     /\ resp'.code = 200
                     /\ Len(resp'.body) <= MaxLimit
                     /\ limit >= 0 => Len(resp'.body) <= limit]_vars

\* C10: when the last of the interleaved change_funil_to requests commits,
\* the stored Negociacao carries the id and the name of one Funil row
C10_LastWriteWinsWhole ==
    [][\A s \in Sessions :
          (update_funil_commit(s) /\ \A t \in Sessions \ {s} : sess[t].pc = "idle") =>
              /\ negs'[sess[s].nid].funil \in DOMAIN funis
              /\ negs'[sess[s].nid].status = funis[negs'[sess[s].nid].funil].nome]_vars

====
